---------------------------- MODULE Spec2Model ----------------------------
(***************************************************************************)
(* Model of the markdown editor/preview widget                             *)
(* (src/src/components/valkoma-markdown.tsx).                              *)
(*                                                                         *)
(*  - Strings are sequences of UTF-16 code units; a code unit is written   *)
(*    as a one-character TLA+ string; "U+0060" stands for the backtick and *)
(*    "U+2705" for the check mark, one code unit each.                     *)
(*  - The presentation shell (ValkomaMarkdown + ErrorBoundary) is the      *)
(*    state machine Spec: one action per event handler or promise          *)
(*    settlement, each including the re-render that React runs after it.   *)
(*  - The token classifier highlightCode is a pure function; SpecHL draws  *)
(*    its arguments from bounded sets and applies it pass by pass.         *)
(***************************************************************************)
EXTENDS Integers, Sequences, FiniteSets, TLC

VARIABLES
    markdown,         \* useState(SAMPLE_MARKDOWN): the document
    hasError,         \* ErrorBoundary.state.hasError
    toasts,           \* titles passed to toast() by the most recent event
    writes,           \* navigator.clipboard.writeText calls not yet settled
    blob,             \* the Blob handed to the browser by the most recent event
    code,             \* highlightCode: argument `code`
    language,         \* highlightCode: argument `language`
    pc,               \* highlightCode: position in the function body
    highlightedCode,  \* highlightCode: local `highlightedCode`
    raised            \* highlightCode: an exception left the function

shellVars == <<markdown, hasError, toasts, writes, blob>>
hlVars == <<code, language, pc, highlightedCode, raised>>
vars == <<markdown, hasError, toasts, writes, blob,
          code, language, pc, highlightedCode, raised>>

(***************************************************************************)
(* Characters                                                              *)
(***************************************************************************)
Digits == {"0", "1", "2", "3", "4", "5", "6", "7", "8", "9"}

LowerCase ==
    {"a", "b", "c", "d", "e", "f", "g", "h", "i", "j", "k", "l", "m",
     "n", "o", "p", "q", "r", "s", "t", "u", "v", "w", "x", "y", "z"}

UpperCase ==
    {"A", "B", "C", "D", "E", "F", "G", "H", "I", "J", "K", "L", "M",
     "N", "O", "P", "Q", "R", "S", "T", "U", "V", "W", "X", "Y", "Z"}

\* \w of a JavaScript regular expression: [A-Za-z0-9_]
WordChars == LowerCase \cup UpperCase \cup Digits \cup {"_"}

\* \s of a JavaScript regular expression and the set String.prototype.trim
\* strips (the members that can be written as TLA+ characters)
WhiteSpace == {" ", "\t", "\n", "\r", "\f"}

\* the characters `.` does not match in a JavaScript regular expression
LineTerminators == {"\n", "\r"}

\* String.prototype.toLowerCase on one code unit
LowerOf(c) ==
    CASE c = "A" -> "a" [] c = "B" -> "b" [] c = "C" -> "c" [] c = "D" -> "d"
      [] c = "E" -> "e" [] c = "F" -> "f" [] c = "G" -> "g" [] c = "H" -> "h"
      [] c = "I" -> "i" [] c = "J" -> "j" [] c = "K" -> "k" [] c = "L" -> "l"
      [] c = "M" -> "m" [] c = "N" -> "n" [] c = "O" -> "o" [] c = "P" -> "p"
      [] c = "Q" -> "q" [] c = "R" -> "r" [] c = "S" -> "s" [] c = "T" -> "t"
      [] c = "U" -> "u" [] c = "V" -> "v" [] c = "W" -> "w" [] c = "X" -> "x"
      [] c = "Y" -> "y" [] c = "Z" -> "z" [] OTHER -> c

toLowerCase(s) == [i \in 1..Len(s) |-> LowerOf(s[i])]

\* s has the characters of t at positions i .. i + Len(t) - 1
At(s, i, t) ==
    /\ i >= 1
    /\ i + Len(t) - 1 <= Len(s)
    /\ \A k \in 1..Len(t) : s[i + k - 1] = t[k]

(***************************************************************************)
(* highlightCode: the keyword table                                        *)
(***************************************************************************)
KW_javascript ==
  <<
    <<"f", "u", "n", "c", "t", "i", "o", "n">>, <<"c", "o", "n", "s", "t">>, <<"l", "e", "t">>,
    <<"v", "a", "r">>, <<"i", "f">>, <<"e", "l", "s", "e">>, <<"f", "o", "r">>,
    <<"w", "h", "i", "l", "e">>, <<"r", "e", "t", "u", "r", "n">>, <<"c", "l", "a", "s", "s">>,
    <<"i", "m", "p", "o", "r", "t">>, <<"e", "x", "p", "o", "r", "t">>,
    <<"a", "s", "y", "n", "c">>, <<"a", "w", "a", "i", "t">>, <<"t", "r", "y">>,
    <<"c", "a", "t", "c", "h">>, <<"f", "i", "n", "a", "l", "l", "y">>, <<"n", "e", "w">>,
    <<"t", "h", "i", "s">>
  >>

KW_typescript ==
  <<
    <<"f", "u", "n", "c", "t", "i", "o", "n">>, <<"c", "o", "n", "s", "t">>, <<"l", "e", "t">>,
    <<"v", "a", "r">>, <<"i", "f">>, <<"e", "l", "s", "e">>, <<"f", "o", "r">>,
    <<"w", "h", "i", "l", "e">>, <<"r", "e", "t", "u", "r", "n">>, <<"c", "l", "a", "s", "s">>,
    <<"i", "m", "p", "o", "r", "t">>, <<"e", "x", "p", "o", "r", "t">>,
    <<"a", "s", "y", "n", "c">>, <<"a", "w", "a", "i", "t">>, <<"t", "r", "y">>,
    <<"c", "a", "t", "c", "h">>, <<"f", "i", "n", "a", "l", "l", "y">>, <<"n", "e", "w">>,
    <<"t", "h", "i", "s">>, <<"i", "n", "t", "e", "r", "f", "a", "c", "e">>,
    <<"t", "y", "p", "e">>, <<"e", "n", "u", "m">>,
    <<"i", "m", "p", "l", "e", "m", "e", "n", "t", "s">>,
    <<"r", "e", "a", "d", "o", "n", "l", "y">>, <<"p", "u", "b", "l", "i", "c">>,
    <<"p", "r", "i", "v", "a", "t", "e">>, <<"p", "r", "o", "t", "e", "c", "t", "e", "d">>,
    <<"a", "s">>, <<"t", "y", "p", "e", "o", "f">>
  >>

KW_python ==
  <<
    <<"d", "e", "f">>, <<"c", "l", "a", "s", "s">>, <<"i", "f">>, <<"e", "l", "s", "e">>,
    <<"e", "l", "i", "f">>, <<"f", "o", "r">>, <<"w", "h", "i", "l", "e">>,
    <<"r", "e", "t", "u", "r", "n">>, <<"i", "m", "p", "o", "r", "t">>, <<"f", "r", "o", "m">>,
    <<"a", "s">>, <<"t", "r", "y">>, <<"e", "x", "c", "e", "p", "t">>, <<"w", "i", "t", "h">>,
    <<"l", "a", "m", "b", "d", "a">>, <<"y", "i", "e", "l", "d">>, <<"s", "e", "l", "f">>
  >>

KW_java ==
  <<
    <<"p", "u", "b", "l", "i", "c">>, <<"p", "r", "i", "v", "a", "t", "e">>,
    <<"p", "r", "o", "t", "e", "c", "t", "e", "d">>, <<"c", "l", "a", "s", "s">>,
    <<"i", "n", "t", "e", "r", "f", "a", "c", "e">>, <<"i", "f">>, <<"e", "l", "s", "e">>,
    <<"f", "o", "r">>, <<"w", "h", "i", "l", "e">>, <<"r", "e", "t", "u", "r", "n">>,
    <<"i", "m", "p", "o", "r", "t">>, <<"p", "a", "c", "k", "a", "g", "e">>,
    <<"s", "t", "a", "t", "i", "c">>, <<"f", "i", "n", "a", "l">>, <<"v", "o", "i", "d">>,
    <<"n", "e", "w">>, <<"e", "x", "t", "e", "n", "d", "s">>,
    <<"i", "m", "p", "l", "e", "m", "e", "n", "t", "s">>
  >>

KW_css ==
  <<
    <<"c", "o", "l", "o", "r">>, <<"b", "a", "c", "k", "g", "r", "o", "u", "n", "d">>,
    <<"m", "a", "r", "g", "i", "n">>, <<"p", "a", "d", "d", "i", "n", "g">>,
    <<"b", "o", "r", "d", "e", "r">>, <<"w", "i", "d", "t", "h">>,
    <<"h", "e", "i", "g", "h", "t">>, <<"d", "i", "s", "p", "l", "a", "y">>,
    <<"p", "o", "s", "i", "t", "i", "o", "n">>, <<"f", "l", "e", "x">>, <<"g", "r", "i", "d">>,
    <<"a", "l", "i", "g", "n">>, <<"j", "u", "s", "t", "i", "f", "y">>,
    <<"z", "-", "i", "n", "d", "e", "x">>, <<"f", "o", "n", "t">>, <<"t", "e", "x", "t">>,
    <<"l", "i", "n", "e", "-", "h", "e", "i", "g", "h", "t">>
  >>

KW_html ==
  <<
    <<"d", "i", "v">>, <<"s", "p", "a", "n">>, <<"p">>, <<"h", "1">>, <<"h", "2">>,
    <<"h", "3">>, <<"b", "o", "d", "y">>, <<"h", "e", "a", "d">>, <<"h", "t", "m", "l">>,
    <<"s", "c", "r", "i", "p", "t">>, <<"s", "t", "y", "l", "e">>, <<"l", "i", "n", "k">>,
    <<"m", "e", "t", "a">>, <<"t", "i", "t", "l", "e">>, <<"i", "n", "p", "u", "t">>,
    <<"f", "o", "r", "m">>, <<"b", "u", "t", "t", "o", "n">>
  >>

KW_bash ==
  <<
    <<"c", "d">>, <<"l", "s">>, <<"m", "k", "d", "i", "r">>, <<"r", "m">>,
    <<"t", "o", "u", "c", "h">>, <<"e", "c", "h", "o">>, <<"c", "a", "t">>, <<"p", "w", "d">>,
    <<"c", "h", "m", "o", "d">>, <<"c", "h", "o", "w", "n">>, <<"s", "u", "d", "o">>,
    <<"a", "p", "t">>, <<"b", "r", "e", "w">>, <<"m", "v">>, <<"c", "p">>,
    <<"k", "i", "l", "l">>, <<"g", "r", "e", "p">>, <<"t", "a", "i", "l">>,
    <<"h", "e", "a", "d">>, <<"e", "x", "p", "o", "r", "t">>, <<"s", "o", "u", "r", "c", "e">>
  >>

KW_git ==
  <<
    <<"g", "i", "t">>, <<"c", "l", "o", "n", "e">>, <<"c", "o", "m", "m", "i", "t">>,
    <<"p", "u", "s", "h">>, <<"p", "u", "l", "l">>, <<"s", "t", "a", "t", "u", "s">>,
    <<"c", "h", "e", "c", "k", "o", "u", "t">>, <<"m", "e", "r", "g", "e">>,
    <<"r", "e", "b", "a", "s", "e">>, <<"b", "r", "a", "n", "c", "h">>, <<"l", "o", "g">>,
    <<"d", "i", "f", "f">>, <<"a", "d", "d">>, <<"i", "n", "i", "t">>,
    <<"r", "e", "m", "o", "t", "e">>, <<"f", "e", "t", "c", "h">>, <<"t", "a", "g">>,
    <<"s", "t", "a", "s", "h">>, <<"r", "e", "s", "e", "t">>
  >>

KW_terminal ==
  <<
    <<"$">>, <<"#">>, <<"~">>, <<">">>, <<".", "/">>, <<".", ".", "/">>,
    <<"b", "a", "s", "h">>, <<"z", "s", "h">>, <<"s", "h">>, <<"n", "o", "d", "e">>,
    <<"n", "p", "m">>, <<"y", "a", "r", "n">>, <<"p", "n", "p", "m">>
  >>

\* the own properties of the object literal `keywords`
keywords ==
    << [name |-> <<"j", "a", "v", "a", "s", "c", "r", "i", "p", "t">>, words |-> KW_javascript],
       [name |-> <<"t", "y", "p", "e", "s", "c", "r", "i", "p", "t">>, words |-> KW_typescript],
       [name |-> <<"p", "y", "t", "h", "o", "n">>, words |-> KW_python],
       [name |-> <<"j", "a", "v", "a">>, words |-> KW_java],
       [name |-> <<"c", "s", "s">>, words |-> KW_css],
       [name |-> <<"h", "t", "m", "l">>, words |-> KW_html],
       [name |-> <<"b", "a", "s", "h">>, words |-> KW_bash],
       [name |-> <<"g", "i", "t">>, words |-> KW_git],
       [name |-> <<"t", "e", "r", "m", "i", "n", "a", "l">>, words |-> KW_terminal] >>

\* `keywords` is an object literal, so a property read that finds no own
\* property continues to Object.prototype; these are its property names, and
\* none of their values is an array
ObjectPrototypeKeys ==
    { <<"c", "o", "n", "s", "t", "r", "u", "c", "t", "o", "r">>,
      <<"_", "_", "p", "r", "o", "t", "o", "_", "_">>,
      <<"t", "o", "S", "t", "r", "i", "n", "g">>,
      <<"t", "o", "L", "o", "c", "a", "l", "e", "S", "t", "r", "i", "n", "g">>,
      <<"v", "a", "l", "u", "e", "O", "f">>,
      <<"h", "a", "s", "O", "w", "n", "P", "r", "o", "p", "e", "r", "t", "y">>,
      <<"i", "s", "P", "r", "o", "t", "o", "t", "y", "p", "e", "O", "f">>,
      <<"p", "r", "o", "p", "e", "r", "t", "y", "I", "s", "E", "n", "u", "m", "e", "r", "a", "b", "l", "e">>,
      <<"_", "_", "d", "e", "f", "i", "n", "e", "G", "e", "t", "t", "e", "r", "_", "_">>,
      <<"_", "_", "d", "e", "f", "i", "n", "e", "S", "e", "t", "t", "e", "r", "_", "_">>,
      <<"_", "_", "l", "o", "o", "k", "u", "p", "G", "e", "t", "t", "e", "r", "_", "_">>,
      <<"_", "_", "l", "o", "o", "k", "u", "p", "S", "e", "t", "t", "e", "r", "_", "_">> }

\* keywords[key]: an own property (an array of words), a value inherited from
\* Object.prototype (truthy, not an array), or undefined
KeywordsGet(key) ==
    IF \E k \in DOMAIN keywords : keywords[k].name = key
    THEN [kind |-> "array",
          words |-> keywords[CHOOSE k \in DOMAIN keywords : keywords[k].name = key].words]
    ELSE IF key \in ObjectPrototypeKeys
         THEN [kind |-> "inherited", words |-> <<>>]
         ELSE [kind |-> "undefined", words |-> <<>>]

\* const langKeywords = keywords[language.toLowerCase()] || []
langKeywords(lang) ==
    LET v == KeywordsGet(toLowerCase(lang))
    IN  IF v.kind = "undefined" THEN [kind |-> "array", words |-> <<>>] ELSE v

(***************************************************************************)
(* highlightCode: escaping                                                 *)
(***************************************************************************)
Min(S) == CHOOSE x \in S : \A y \in S : x <= y

\* the first index j >= from with s[j] = c, or 0
IndexOfChar(s, c, from) ==
    LET S == {j \in from..Len(s) : s[j] = c}
    IN  IF S = {} THEN 0 ELSE Min(S)

\* s.replace(/c/g, rep) for a single character c, from index i on
RECURSIVE ReplaceCharFrom(_, _, _, _)
ReplaceCharFrom(s, i, c, rep) ==
    LET j == IndexOfChar(s, c, i)
    IN  IF j = 0 THEN SubSeq(s, i, Len(s))
        ELSE SubSeq(s, i, j - 1) \o rep \o ReplaceCharFrom(s, j + 1, c, rep)

ReplaceChar(s, c, rep) == ReplaceCharFrom(s, 1, c, rep)

\* variant of EscapeHtml: the last replace call is missing
EscapeHtmlNoApostrophe(s) ==
    LET a == ReplaceChar(s, "&", <<"&", "a", "m", "p", ";">>)
        b == ReplaceChar(a, "<", <<"&", "l", "t", ";">>)
        c == ReplaceChar(b, ">", <<"&", "g", "t", ";">>)
    IN  ReplaceChar(c, "\"", <<"&", "q", "u", "o", "t", ";">>)

\* the chain of five replace calls, in the order of the source
EscapeHtml(s) ==
    LET a == ReplaceChar(s, "&", <<"&", "a", "m", "p", ";">>)
        b == ReplaceChar(a, "<", <<"&", "l", "t", ";">>)
        c == ReplaceChar(b, ">", <<"&", "g", "t", ";">>)
        d == ReplaceChar(c, "\"", <<"&", "q", "u", "o", "t", ";">>)
    IN  ReplaceChar(d, "'", <<"&", "#", "3", "9", ";">>)

(***************************************************************************)
(* highlightCode: the replacement strings and String.prototype.replace     *)
(***************************************************************************)
StringClass == <<"s", "t", "r", "i", "n", "g">>
CommentClass == <<"c", "o", "m", "m", "e", "n", "t">>
NumberClass == <<"n", "u", "m", "b", "e", "r">>
KeywordClass == <<"k", "e", "y", "w", "o", "r", "d">>

\* <span class="code-
SpanPrefix ==
    <<"<", "s", "p", "a", "n", " ", "c", "l", "a", "s", "s", "=", "\"", "c", "o", "d", "e", "-">>

\* <span class="code-CLASS">
SpanOpen(class) == SpanPrefix \o class \o <<"\"", ">">>

\* </span>
SpanClose == <<"<", "/", "s", "p", "a", "n", ">">>

\* a regular expression finds no match starting at a position
NoMatch == -1

\* s.replace(re, open + '$1' + close) for a global re whose group 1 is its
\* whole match, from index i on.  m[j] is the last index of the match of re
\* that starts at j (j - 1 for an empty match), or NoMatch.  The scan takes
\* the leftmost match at or after i, resumes after it, and steps over one
\* character after an empty match.
RECURSIVE ReplaceFrom(_, _, _, _, _)
ReplaceFrom(s, m, i, open, close) ==
    LET S == {j \in i..(Len(s) + 1) : m[j] # NoMatch}
    IN  IF S = {} THEN SubSeq(s, i, Len(s))
        ELSE LET j == Min(S)
                 e == m[j]
             IN  SubSeq(s, i, j - 1) \o open \o SubSeq(s, j, e) \o close
                     \o (IF e >= j THEN ReplaceFrom(s, m, e + 1, open, close)
                         ELSE IF j > Len(s) THEN <<>>
                              ELSE <<s[j]>> \o ReplaceFrom(s, m, j + 1, open, close))

(***************************************************************************)
(* highlightCode: the four regular expressions                             *)
(***************************************************************************)
\* the last index matched by [^\n]* started at from (from - 1 when it
\* matches nothing)
EndOfLine(s, from) ==
    LET n == IndexOfChar(s, "\n", from)
    IN  IF n = 0 THEN Len(s) ELSE n - 1

\* /(`[^`]*`|"[^"]*"|'[^']*')/ at i
StringMatchEnd(s, i) ==
    IF i <= Len(s) /\ s[i] \in {"U+0060", "\"", "'"}
    THEN LET j == IndexOfChar(s, s[i], i + 1)
         IN  IF j = 0 THEN NoMatch ELSE j
    ELSE NoMatch

\* /(\/\/[^\n]*|\/\*[\s\S]*?\*\/|#[^\n]*)/ at i
CommentMatchEnd(s, i) ==
    IF At(s, i, <<"/", "/">>) THEN EndOfLine(s, i + 2)
    ELSE IF At(s, i, <<"/", "*">>)
         THEN LET S == {j \in (i + 2)..Len(s) : At(s, j, <<"*", "/">>)}
              IN  IF S = {} THEN NoMatch ELSE Min(S) + 1
         ELSE IF i <= Len(s) /\ s[i] = "#" THEN EndOfLine(s, i + 1)
              ELSE NoMatch

IsWordAt(s, p) == p >= 1 /\ p <= Len(s) /\ s[p] \in WordChars

\* \b between s[p - 1] and s[p]
WordBoundary(s, p) == IsWordAt(s, p - 1) # IsWordAt(s, p)

\* what (?<!<span class="code-[^"]*">.*) and (?<!<span class="code-[^"]*">.*?)
\* forbid at p: <span class="code- , then characters other than " , then "> ,
\* then characters `.` matches, ending just before p
OpensBefore(s, p) ==
    \E b \in 1..(p - 2) :
        /\ s[b] = "\""
        /\ s[b + 1] = ">"
        /\ \A k \in (b + 2)..(p - 1) : s[k] \notin LineTerminators
        /\ \E a \in 1..(b - Len(SpanPrefix)) :
              /\ At(s, a, SpanPrefix)
              /\ \A k \in (a + Len(SpanPrefix))..(b - 1) : s[k] # "\""

\* variant of ClosesAfter: the lookahead is missing
ClosesAfterNever(s, p) == FALSE

\* what (?![^<]*<\/span>) forbids at p: the first < at or after p starts </span>
ClosesAfter(s, p) ==
    LET j == IndexOfChar(s, "<", p)
    IN  j # 0 /\ At(s, j, SpanClose)

\* the last index of the run of digits that starts at from (from - 1 if none)
DigitsEnd(s, from) ==
    LET S == {j \in from..Len(s) : s[j] \notin Digits}
    IN  IF S = {} THEN Len(s) ELSE Min(S) - 1

\* /(?<!<span class="code-[^"]*">.*)\b(\d+\.?\d*)\b(?![^<]*<\/span>)/ at i.
\* \d+ starts at a word boundary, so it starts a run of digits.  Backtracking
\* tries the ends longest first: after the fraction digits, after the dot,
\* after the integer digits (an end inside a run of digits is no \b).
NumberMatchEnd(s, i) ==
    IF i <= Len(s) /\ s[i] \in Digits /\ WordBoundary(s, i) /\ ~OpensBefore(s, i)
    THEN LET j == DigitsEnd(s, i)
             dot == j + 1 <= Len(s) /\ s[j + 1] = "."
             k == DigitsEnd(s, j + 2)
             Ok(e) == WordBoundary(s, e + 1) /\ ~ClosesAfter(s, e + 1)
         IN  IF dot /\ k > j + 1 /\ Ok(k) THEN k
             ELSE IF dot /\ Ok(j + 1) THEN j + 1
             ELSE IF Ok(j) THEN j
             ELSE NoMatch
    ELSE NoMatch

\* the keyword as the source text of a regular expression, matched from
\* position p on: $ asserts the end of the input (no m flag), . matches any
\* character but a line terminator, every other character of the table
\* matches itself.  The last index matched (p - 1 for `$` alone), or NoMatch.
RECURSIVE KeywordEnd(_, _, _, _)
KeywordEnd(s, p, keyword, k) ==
    IF k > Len(keyword) THEN p - 1
    ELSE IF keyword[k] = "$"
         THEN IF p = Len(s) + 1 THEN KeywordEnd(s, p, keyword, k + 1) ELSE NoMatch
         ELSE IF p <= Len(s) /\ (IF keyword[k] = "."
                                 THEN s[p] \notin LineTerminators
                                 ELSE s[p] = keyword[k])
              THEN KeywordEnd(s, p + 1, keyword, k + 1)
              ELSE NoMatch

\* new RegExp(`(?<!<span class="code-[^"]*">.*?)\\b(${keyword})\\b(?![^<]*<\/span>)`) at i
KeywordMatchEnd(s, i, keyword) ==
    LET e == KeywordEnd(s, i, keyword, 1)
    IN  IF /\ e # NoMatch
           /\ WordBoundary(s, i)
           /\ WordBoundary(s, e + 1)
           /\ ~OpensBefore(s, i)
           /\ ~ClosesAfter(s, e + 1)
        THEN e
        ELSE NoMatch

(***************************************************************************)
(* highlightCode: the passes                                               *)
(***************************************************************************)
\* the matches of the four expressions in s, by start index
StringMatches(s) == [i \in 1..(Len(s) + 1) |-> StringMatchEnd(s, i)]
CommentMatches(s) == [i \in 1..(Len(s) + 1) |-> CommentMatchEnd(s, i)]
NumberMatches(s) == [i \in 1..(Len(s) + 1) |-> NumberMatchEnd(s, i)]
KeywordMatches(s, keyword) == [i \in 1..(Len(s) + 1) |-> KeywordMatchEnd(s, i, keyword)]

\* line 127
HighlightStrings(s) ==
    ReplaceFrom(s, StringMatches(s), 1, SpanOpen(StringClass), SpanClose)

\* lines 130-133
HighlightComments(s) ==
    ReplaceFrom(s, CommentMatches(s), 1, SpanOpen(CommentClass), SpanClose)

\* lines 136-139
HighlightNumbers(s) ==
    ReplaceFrom(s, NumberMatches(s), 1, SpanOpen(NumberClass), SpanClose)

\* lines 143-144, for one keyword
HighlightKeyword(s, keyword) ==
    ReplaceFrom(s, KeywordMatches(s, keyword), 1, SpanOpen(KeywordClass), SpanClose)

\* langKeywords.forEach(...), from the k-th word on
RECURSIVE HighlightKeywords(_, _, _)
HighlightKeywords(s, words, k) ==
    IF k > Len(words) THEN s
    ELSE HighlightKeywords(HighlightKeyword(s, words[k]), words, k + 1)

\* langKeywords.forEach is not a function: the read of `forEach` on a value
\* that is not an array gives undefined, and calling it throws a TypeError
ForEachThrows(lang) == langKeywords(lang).kind # "array"

\* the value highlightCode returns, when it returns
HighlightCode(c, lang) ==
    HighlightKeywords(
        HighlightNumbers(HighlightComments(HighlightStrings(EscapeHtml(c)))),
        langKeywords(lang).words, 1)

(***************************************************************************)
(* The presentation shell: constants and derived values                    *)
(***************************************************************************)
\* const SAMPLE_MARKDOWN
SAMPLE_MARKDOWN ==
  <<
    "#", " ", "W", "e", "l", "c", "o", "m", "e", " ", "t", "o", " ", "M", "a", "r", "k", "d",
    "o", "w", "n", " ", "V", "i", "e", "w", "e", "r", "\n", "\n", "_", "_", "_", "\n", "\n",
    "T", "h", "i", "s", " ", "i", "s", " ", "a", " ", "*", "*", "l", "i", "v", "e", " ", "m",
    "a", "r", "k", "d", "o", "w", "n", " ", "e", "d", "i", "t", "o", "r", "*", "*", " ", "w",
    "i", "t", "h", " ", "i", "n", "s", "t", "a", "n", "t", " ", "p", "r", "e", "v", "i", "e",
    "w", " ", "f", "u", "n", "c", "t", "i", "o", "n", "a", "l", "i", "t", "y", ".", "\n", "\n",
    "#", "#", " ", "F", "e", "a", "t", "u", "r", "e", "s", "\n", "\n", "-", " ", "U+2705", " ",
    "R", "e", "a", "l", "-", "t", "i", "m", "e", " ", "p", "r", "e", "v", "i", "e", "w", "\n",
    "-", " ", "U+2705", " ", "S", "y", "n", "t", "a", "x", " ", "h", "i", "g", "h", "l", "i",
    "g", "h", "t", "i", "n", "g", "\n", "-", " ", "U+2705", " ", "S", "e", "c", "u", "r", "i",
    "t", "y", " ", "s", "a", "n", "i", "t", "i", "z", "a", "t", "i", "o", "n", "\n", "-", " ",
    "U+2705", " ", "R", "e", "s", "p", "o", "n", "s", "i", "v", "e", " ", "d", "e", "s", "i",
    "g", "n", "\n", "-", " ", "U+2705", " ", "E", "r", "r", "o", "r", " ", "h", "a", "n", "d",
    "l", "i", "n", "g", "\n", "\n", "#", "#", "#", " ", "C", "o", "d", "e", " ", "E", "x", "a",
    "m", "p", "l", "e", "\n", "\n", "U+0060", "U+0060", "U+0060", "j", "a", "v", "a", "s", "c",
    "r", "i", "p", "t", "\n", "f", "u", "n", "c", "t", "i", "o", "n", " ", "g", "r", "e", "e",
    "t", "(", "n", "a", "m", "e", ")", " ", "{", "\n", " ", " ", "c", "o", "n", "s", "o", "l",
    "e", ".", "l", "o", "g", "(", "U+0060", "H", "e", "l", "l", "o", ",", " ", "$", "{", "n",
    "a", "m", "e", "}", "!", "U+0060", ")", ";", "\n", " ", " ", "r", "e", "t", "u", "r", "n",
    " ", "U+0060", "W", "e", "l", "c", "o", "m", "e", " ", "t", "o", " ", "t", "h", "e", " ",
    "m", "a", "r", "k", "d", "o", "w", "n", " ", "v", "i", "e", "w", "e", "r", "!", "U+0060",
    ";", "\n", "}", "\n", "\n", "g", "r", "e", "e", "t", "(", "\"", "D", "e", "v", "e", "l",
    "o", "p", "e", "r", "\"", ")", ";", "\n", "U+0060", "U+0060", "U+0060", "\n", "\n", "#",
    "#", "#", " ", "P", "y", "t", "h", "o", "n", " ", "E", "x", "a", "m", "p", "l", "e", "\n",
    "\n", "U+0060", "U+0060", "U+0060", "p", "y", "t", "h", "o", "n", "\n", "d", "e", "f", " ",
    "c", "a", "l", "c", "u", "l", "a", "t", "e", "_", "f", "i", "b", "o", "n", "a", "c", "c",
    "i", "(", "n", ")", ":", "\n", " ", " ", " ", " ", "i", "f", " ", "n", " ", "<", "=", " ",
    "1", ":", "\n", " ", " ", " ", " ", " ", " ", " ", " ", "r", "e", "t", "u", "r", "n", " ",
    "n", "\n", " ", " ", " ", " ", "r", "e", "t", "u", "r", "n", " ", "c", "a", "l", "c", "u",
    "l", "a", "t", "e", "_", "f", "i", "b", "o", "n", "a", "c", "c", "i", "(", "n", "-", "1",
    ")", " ", "+", " ", "c", "a", "l", "c", "u", "l", "a", "t", "e", "_", "f", "i", "b", "o",
    "n", "a", "c", "c", "i", "(", "n", "-", "2", ")", "\n", "\n", "p", "r", "i", "n", "t", "(",
    "c", "a", "l", "c", "u", "l", "a", "t", "e", "_", "f", "i", "b", "o", "n", "a", "c", "c",
    "i", "(", "1", "0", ")", ")", "\n", "U+0060", "U+0060", "U+0060", "\n", "\n", "#", "#",
    "#", " ", "L", "i", "s", "t", "s", " ", "a", "n", "d", " ", "L", "i", "n", "k", "s", "\n",
    "\n", "1", ".", " ", "*", "*", "O", "r", "d", "e", "r", "e", "d", " ", "l", "i", "s", "t",
    "s", "*", "*", " ", "w", "o", "r", "k", " ", "p", "e", "r", "f", "e", "c", "t", "l", "y",
    "\n", "2", ".", " ", "[", "L", "i", "n", "k", "s", " ", "a", "r", "e", " ", "s", "u", "p",
    "p", "o", "r", "t", "e", "d", "]", "(", "h", "t", "t", "p", "s", ":", "/", "/", "e", "x",
    "a", "m", "p", "l", "e", ".", "c", "o", "m", ")", "\n", "3", ".", " ", "U+0060", "I", "n",
    "l", "i", "n", "e", " ", "c", "o", "d", "e", "U+0060", " ", "i", "s", " ", "h", "i", "g",
    "h", "l", "i", "g", "h", "t", "e", "d", "\n", "\n", ">", " ", "*", "*", "N", "o", "t", "e",
    "*", "*", ":", " ", "T", "h", "i", "s", " ", "v", "i", "e", "w", "e", "r", " ", "s", "a",
    "n", "i", "t", "i", "z", "e", "s", " ", "c", "o", "n", "t", "e", "n", "t", " ", "t", "o",
    " ", "p", "r", "e", "v", "e", "n", "t", " ", "X", "S", "S", " ", "a", "t", "t", "a", "c",
    "k", "s", ".", "\n", "\n", "#", "#", "#", " ", "T", "a", "b", "l", "e", " ", "S", "u", "p",
    "p", "o", "r", "t", "\n", "\n", "|", " ", "F", "e", "a", "t", "u", "r", "e", " ", "|", " ",
    "S", "t", "a", "t", "u", "s", " ", "|", " ", "P", "r", "i", "o", "r", "i", "t", "y", " ",
    "|", "\n", "|", "-", "-", "-", "-", "-", "-", "-", "-", "-", "|", "-", "-", "-", "-", "-",
    "-", "-", "-", "|", "-", "-", "-", "-", "-", "-", "-", "-", "-", "-", "|", "\n", "|", " ",
    "L", "i", "v", "e", " ", "P", "r", "e", "v", "i", "e", "w", " ", "|", " ", "U+2705", " ",
    "C", "o", "m", "p", "l", "e", "t", "e", " ", "|", " ", "H", "i", "g", "h", " ", "|", "\n",
    "|", " ", "S", "y", "n", "t", "a", "x", " ", "H", "i", "g", "h", "l", "i", "g", "h", "t",
    "i", "n", "g", " ", "|", " ", "U+2705", " ", "C", "o", "m", "p", "l", "e", "t", "e", " ",
    "|", " ", "H", "i", "g", "h", " ", "|", "\n", "|", " ", "S", "e", "c", "u", "r", "i", "t",
    "y", " ", "|", " ", "U+2705", " ", "C", "o", "m", "p", "l", "e", "t", "e", " ", "|", " ",
    "C", "r", "i", "t", "i", "c", "a", "l", " ", "|", "\n", "\n", "-", "-", "-", "\n", "\n",
    "*", "*", "T", "r", "y", " ", "p", "a", "s", "t", "i", "n", "g", " ", "y", "o", "u", "r",
    " ", "o", "w", "n", " ", "m", "a", "r", "k", "d", "o", "w", "n", " ", "c", "o", "n", "t",
    "e", "n", "t", "!", "*", "*"
  >>

\* if (value.length > 50000)
MaxChars == 50000

\* the largest index of s that holds no white space, given that one exists
LastNonSpace(s) ==
    CHOOSE i \in 1..Len(s) :
        s[i] \notin WhiteSpace /\ \A k \in (i + 1)..Len(s) : s[k] \in WhiteSpace

FirstNonSpace(s) ==
    CHOOSE i \in 1..Len(s) :
        s[i] \notin WhiteSpace /\ \A k \in 1..(i - 1) : s[k] \in WhiteSpace

\* String.prototype.trim
Trim(s) ==
    IF \A i \in 1..Len(s) : s[i] \in WhiteSpace THEN <<>>
    ELSE SubSeq(s, FirstNonSpace(s), LastNonSpace(s))

\* s.split(/\s+/).length: every maximal run of white space separates two
\* pieces (an empty piece at either end counts)
SplitSpaceLength(s) ==
    1 + Cardinality({i \in 1..Len(s) :
                        s[i] \in WhiteSpace /\ (i = 1 \/ s[i - 1] \notin WhiteSpace)})

\* s.split("\n").length
SplitLinesLength(s) == 1 + Cardinality({i \in 1..Len(s) : s[i] = "\n"})

\* variant of Stats: the words are counted without trimming
StatsNoTrim(md) ==
    [characters |-> Len(md),
     words |-> IF Trim(md) # <<>> THEN SplitSpaceLength(md) ELSE 0,
     lines |-> SplitLinesLength(md)]

\* the useMemo over [markdown]
Stats(md) ==
    [characters |-> Len(md),
     words |-> IF Trim(md) # <<>> THEN SplitSpaceLength(Trim(md)) ELSE 0,
     lines |-> SplitLinesLength(md)]

stats == Stats(markdown)

(***************************************************************************)
(* Rendering: ReactMarkdown hands every fenced code block to               *)
(* customComponents.code, which calls highlightCode                        *)
(***************************************************************************)
\* {markdown || "*No content to preview*"}
NoContent ==
    <<"*", "N", "o", " ", "c", "o", "n", "t", "e", "n", "t", " ", "t", "o", " ",
      "p", "r", "e", "v", "i", "e", "w", "*">>

RenderSource(md) == IF md = <<>> THEN NoContent ELSE md

Fence == <<"U+0060", "U+0060", "U+0060">>

LanguagePrefix == <<"l", "a", "n", "g", "u", "a", "g", "e", "-">>

\* the positions at which the lines of s start
LineStarts(s) == {1} \cup {i + 1 : i \in {j \in 1..Len(s) : s[j] = "\n"}}

RECURSIVE SortedSeq(_)
SortedSeq(S) == IF S = {} THEN <<>> ELSE <<Min(S)>> \o SortedSeq(S \ {Min(S)})

\* the starts of the lines of s that begin with a code fence, in order
FenceLines(s) == SortedSeq({p \in LineStarts(s) : At(s, p, Fence)})

\* the info string of the fence line that starts at p
FenceInfo(s, p) == SubSeq(s, p + Len(Fence), EndOfLine(s, p))

\* the first word of an info string: the `lang` of the code block
FirstWord(info) ==
    LET S == {j \in 1..Len(info) : info[j] \in WhiteSpace}
    IN  IF S = {} THEN info ELSE SubSeq(info, 1, Min(S) - 1)

\* the className the code element of a fenced block gets
ClassName(info) ==
    IF FirstWord(info) = <<>> THEN <<>> ELSE LanguagePrefix \o FirstWord(info)

\* the fenced code blocks of s: a fence line opens a block, the next fence
\* line without an info string closes it, and a block left open ends with
\* the document.  `text` is the text between the two fence lines, without
\* the line break before the closing fence.
RECURSIVE ScanFences(_, _, _, _)
ScanFences(s, fences, k, open) ==
    IF k > Len(fences)
    THEN IF open = 0 THEN <<>>
         ELSE << [className |-> ClassName(FenceInfo(s, open)),
                  text |-> SubSeq(s, EndOfLine(s, open) + 2, Len(s))] >>
    ELSE IF open = 0
         THEN ScanFences(s, fences, k + 1, fences[k])
         ELSE IF FenceInfo(s, fences[k]) = <<>>
              THEN << [className |-> ClassName(FenceInfo(s, open)),
                       text |-> SubSeq(s, EndOfLine(s, open) + 2, fences[k] - 2)] >>
                   \o ScanFences(s, fences, k + 1, 0)
              ELSE ScanFences(s, fences, k + 1, open)

FencedBlocks(s) == ScanFences(s, FenceLines(s), 1, 0)

\* /language-(\w+)/.exec(className || ""): the captured group, <<>> for null
LanguageMatch(className) ==
    LET S == {i \in 1..Len(className) :
                 At(className, i, LanguagePrefix)
                     /\ IsWordAt(className, i + Len(LanguagePrefix))}
    IN  IF S = {} THEN <<>>
        ELSE LET from == Min(S) + Len(LanguagePrefix)
                 T == {j \in from..Len(className) : className[j] \notin WordChars}
             IN  SubSeq(className, from, IF T = {} THEN Len(className) ELSE Min(T) - 1)

\* the blocks customComponents.code highlights (!inline && match), each with
\* the arguments it passes to highlightCode
HighlightedBlocks(md) ==
    LET blocks == FencedBlocks(RenderSource(md))
    IN  [k \in {j \in DOMAIN blocks : LanguageMatch(blocks[j].className) # <<>>} |->
            [codeString |-> blocks[k].text,
             language |-> LanguageMatch(blocks[k].className)]]

\* rendering md throws: highlightCode throws for one of its blocks
RenderThrows(md) ==
    \E k \in DOMAIN HighlightedBlocks(md) : ForEachThrows(HighlightedBlocks(md)[k].language)

(***************************************************************************)
(* The presentation shell: events                                          *)
(***************************************************************************)
\* bound of the model: clipboard writes that may be unsettled at once
MaxPending == 1

\* the values the text area and the clipboard hand to the handlers
Words ==
    <<" ", "t", "w", "o", " ", " ", "w", "o", "r", "d", "s", "\n", "\t", "x", "\n">>

Blank == <<" ", "\n", " ">>

\* a fenced block whose language tag names a property of Object.prototype
BadFence ==
    <<"U+0060", "U+0060", "U+0060", "c", "o", "n", "s", "t", "r", "u", "c", "t", "o", "r", "\n",
      "x", "\n", "U+0060", "U+0060", "U+0060">>

\* (<<>> \o f is the function f as a tuple)
AtLimit ==
    <<>> \o
    [i \in 1..MaxChars |->
        IF i % 10000 = 0 THEN "\n" ELSE IF i % 10 = 0 THEN " " ELSE "a"]

OverLimit == <<>> \o [i \in 1..(MaxChars + 1) |-> "a"]

Values == << <<>>, Words, Blank, BadFence, AtLimit, OverLimit >>

NoBlob == [type |-> "", download |-> "", content |-> <<>>]

\* variant of Rerender: the error thrown below the boundary is not caught
RerenderNoCatch(err, md) == err

\* what React does after a handler has run: the view is rendered again, and
\* an error thrown below the boundary sets hasError
\* (getDerivedStateFromError); a boundary that shows the panel renders no
\* children
Rerender(err, md) == err \/ RenderThrows(md)

\* variant of handleMarkdownChange: the length check is missing
handleMarkdownChangeNoCheck(value) ==
    /\ markdown' = value
    /\ toasts' = <<>>
    /\ hasError' = Rerender(hasError, value)
    /\ blob' = NoBlob
    /\ UNCHANGED <<writes, hlVars>>

\* variant of handleMarkdownChange: the return after the toast is missing
handleMarkdownChangeNoReturn(value) ==
    /\ toasts' = IF Len(value) > MaxChars THEN <<"Content too large">> ELSE <<>>
    /\ markdown' = value
    /\ hasError' = Rerender(hasError, value)
    /\ blob' = NoBlob
    /\ UNCHANGED <<writes, hlVars>>

\* handleMarkdownChange(value)
handleMarkdownChange(value) ==
    /\ IF Len(value) > MaxChars
       THEN /\ toasts' = <<"Content too large">>
            /\ UNCHANGED <<markdown, hasError>>
       ELSE /\ markdown' = value
            /\ hasError' = Rerender(hasError, value)
            /\ toasts' = <<>>
    /\ blob' = NoBlob
    /\ UNCHANGED <<writes, hlVars>>

\* variant of handlePaste: the handler stores the pasted text
handlePasteStores(pastedText) ==
    /\ toasts' = IF pastedText # <<>> THEN <<"Content pasted">> ELSE <<>>
    /\ markdown' = IF pastedText # <<>> /\ Len(pastedText) <= MaxChars
                   THEN pastedText ELSE markdown
    /\ blob' = NoBlob
    /\ UNCHANGED <<hasError, writes, hlVars>>

\* handlePaste(e), pastedText = e.clipboardData.getData("text")
handlePaste(pastedText) ==
    /\ toasts' = IF pastedText # <<>> THEN <<"Content pasted">> ELSE <<>>
    /\ blob' = NoBlob
    /\ UNCHANGED <<markdown, hasError, writes, hlVars>>

\* variant of copyToClipboard: the write gets the initial document
copyToClipboardSample ==
    /\ Len(writes) < MaxPending
    /\ writes' = Append(writes, [origin |-> "toolbar", text |-> SAMPLE_MARKDOWN])
    /\ toasts' = <<>>
    /\ blob' = NoBlob
    /\ UNCHANGED <<markdown, hasError, hlVars>>

\* copyToClipboard, up to the await
copyToClipboard ==
    /\ Len(writes) < MaxPending
    /\ writes' = Append(writes, [origin |-> "toolbar", text |-> markdown])
    /\ toasts' = <<>>
    /\ blob' = NoBlob
    /\ UNCHANGED <<markdown, hasError, hlVars>>

\* the onClick of a code block's copy button
codeCopy(k) ==
    /\ ~hasError
    /\ Len(writes) < MaxPending
    /\ writes' = Append(writes,
                        [origin |-> "code", text |-> HighlightedBlocks(markdown)[k].codeString])
    /\ toasts' = <<"Code copied!">>
    /\ blob' = NoBlob
    /\ UNCHANGED <<markdown, hasError, hlVars>>

Remove(q, k) == SubSeq(q, 1, k - 1) \o SubSeq(q, k + 1, Len(q))

\* the promise of the k-th unsettled writeText resolves: copyToClipboard
\* continues after its await; nothing awaits the write of a code block
writeResolved(k) ==
    /\ writes' = Remove(writes, k)
    /\ toasts' = IF writes[k].origin = "toolbar" THEN <<"Copied to clipboard">> ELSE <<>>
    /\ blob' = NoBlob
    /\ UNCHANGED <<markdown, hasError, hlVars>>

\* the promise of the k-th unsettled writeText rejects: copyToClipboard
\* continues in its catch block; nothing catches the write of a code block
writeRejected(k) ==
    /\ writes' = Remove(writes, k)
    /\ toasts' = IF writes[k].origin = "toolbar" THEN <<"Copy failed">> ELSE <<>>
    /\ blob' = NoBlob
    /\ UNCHANGED <<markdown, hasError, hlVars>>

\* downloadMarkdown
downloadMarkdown ==
    /\ blob' = [type |-> "text/markdown", download |-> "document.md", content |-> markdown]
    /\ toasts' = <<"Download started">>
    /\ UNCHANGED <<markdown, hasError, writes, hlVars>>

\* variant of clearContent: the document is not reset
clearContentKeeps ==
    /\ toasts' = <<"Content cleared">>
    /\ blob' = NoBlob
    /\ UNCHANGED <<markdown, hasError, writes, hlVars>>

\* clearContent
clearContent ==
    /\ markdown' = <<>>
    /\ hasError' = Rerender(hasError, <<>>)
    /\ toasts' = <<"Content cleared">>
    /\ blob' = NoBlob
    /\ UNCHANGED <<writes, hlVars>>

\* the onClick of the panel's Try Again button: setState({ hasError: false }),
\* after which the children are rendered again
tryAgain ==
    /\ hasError
    /\ hasError' = Rerender(FALSE, markdown)
    /\ toasts' = <<>>
    /\ blob' = NoBlob
    /\ UNCHANGED <<markdown, writes, hlVars>>

HLIdle ==
    /\ code = <<>>
    /\ language = <<>>
    /\ pc = "idle"
    /\ highlightedCode = <<>>
    /\ raised = FALSE

ShellInit ==
    /\ markdown = SAMPLE_MARKDOWN
    /\ hasError = Rerender(FALSE, SAMPLE_MARKDOWN)
    /\ toasts = <<>>
    /\ writes = <<>>
    /\ blob = NoBlob

Init == ShellInit /\ HLIdle

Next ==
    \/ \E v \in DOMAIN Values : handleMarkdownChange(Values[v])
    \/ \E v \in DOMAIN Values : handlePaste(Values[v])
    \/ copyToClipboard
    \/ \E k \in DOMAIN HighlightedBlocks(markdown) : codeCopy(k)
    \/ \E k \in DOMAIN writes : writeResolved(k)
    \/ \E k \in DOMAIN writes : writeRejected(k)
    \/ downloadMarkdown
    \/ clearContent
    \/ tryAgain

Spec == Init /\ [][Next]_vars

(***************************************************************************)
(* highlightCode applied to arguments from bounded sets                    *)
(***************************************************************************)
\* bound of the model: the longest `code` drawn from Alphabet
MaxLen == 3

Alphabet == {"<", "\"", "'", "U+0060", "#", "1", "p", "\n"}

Codes == UNION {[1..n -> Alphabet] : n \in 0..MaxLen}

LangText == <<"t", "e", "x", "t">>
LangJavascript == <<"j", "a", "v", "a", "s", "c", "r", "i", "p", "t">>
LangPython == <<"p", "y", "t", "h", "o", "n">>
LangHtml == <<"H", "T", "M", "L">>
LangTerminal == <<"t", "e", "r", "m", "i", "n", "a", "l">>
LangConstructor == <<"c", "o", "n", "s", "t", "r", "u", "c", "t", "o", "r">>
LangProto == <<"_", "_", "p", "r", "o", "t", "o", "_", "_">>

Languages == {LangText, LangPython, LangHtml, LangTerminal, LangConstructor, LangProto}

\* <b>&"'
CodeEntities == <<"<", "b", ">", "&", "\"", "'">>

\* "hi" + 42
CodeHi == <<"\"", "h", "i", "\"", " ", "+", " ", "4", "2">>

\* def f(n):\n    return n  # base
CodeDef ==
    <<"d", "e", "f", " ", "f", "(", "n", ")", ":", "\n", " ", " ", " ", " ",
      "r", "e", "t", "u", "r", "n", " ", "n", " ", " ", "#", " ", "b", "a", "s", "e">>

Examples ==
    { <<CodeEntities, LangText>>, <<CodeHi, LangJavascript>>, <<CodeDef, LangPython>> }

Arguments == Examples \cup (Codes \X Languages)

HLInit ==
    /\ ShellInit
    /\ \E a \in Arguments : code = a[1] /\ language = a[2]
    /\ pc = "escape"
    /\ highlightedCode = <<>>
    /\ raised = FALSE

\* lines 117-122
Escape ==
    /\ pc = "escape"
    /\ highlightedCode' = EscapeHtml(code)
    /\ pc' = "strings"
    /\ UNCHANGED <<code, language, raised, shellVars>>

\* line 127
Strings ==
    /\ pc = "strings"
    /\ highlightedCode' = HighlightStrings(highlightedCode)
    /\ pc' = "comments"
    /\ UNCHANGED <<code, language, raised, shellVars>>

\* lines 130-133
Comments ==
    /\ pc = "comments"
    /\ highlightedCode' = HighlightComments(highlightedCode)
    /\ pc' = "numbers"
    /\ UNCHANGED <<code, language, raised, shellVars>>

\* lines 136-139
Numbers ==
    /\ pc = "numbers"
    /\ highlightedCode' = HighlightNumbers(highlightedCode)
    /\ pc' = "keywords"
    /\ UNCHANGED <<code, language, raised, shellVars>>

\* lines 142-147: the forEach, which throws when langKeywords has no forEach,
\* and the return
Keywords ==
    /\ pc = "keywords"
    /\ IF ForEachThrows(language)
       THEN raised' = TRUE /\ UNCHANGED highlightedCode
       ELSE /\ raised' = FALSE
            /\ highlightedCode' =
                   HighlightKeywords(highlightedCode, langKeywords(language).words, 1)
    /\ pc' = "done"
    /\ UNCHANGED <<code, language, shellVars>>

HLNext == Escape \/ Strings \/ Comments \/ Numbers \/ Keywords

SpecHL == HLInit /\ [][HLNext]_vars

(***************************************************************************)
(* Ghost: which code units of the classifier's output derive from `code`   *)
(***************************************************************************)
Units(n, b) == [i \in 1..n |-> b]

\* the ghost of langKeywords.forEach: `from` is rewritten by the same
\* matches as s
RECURSIVE KeywordsFromCode(_, _, _, _)
KeywordsFromCode(s, from, words, k) ==
    IF k > Len(words) THEN from
    ELSE KeywordsFromCode(
             HighlightKeyword(s, words[k]),
             ReplaceFrom(from, KeywordMatches(s, words[k]), 1,
                         Units(Len(SpanOpen(KeywordClass)), FALSE),
                         Units(Len(SpanClose), FALSE)),
             words, k + 1)

\* FromCode(c, lang)[p] is TRUE when the unit at p of the returned text
\* descends from the argument `code` (as written or as part of an entity),
\* FALSE when a replacement string of one of the passes put it there
FromCode(c, lang) ==
    LET s0 == EscapeHtml(c)
        f0 == Units(Len(s0), TRUE)
        s1 == HighlightStrings(s0)
        f1 == ReplaceFrom(f0, StringMatches(s0), 1,
                          Units(Len(SpanOpen(StringClass)), FALSE),
                          Units(Len(SpanClose), FALSE))
        s2 == HighlightComments(s1)
        f2 == ReplaceFrom(f1, CommentMatches(s1), 1,
                          Units(Len(SpanOpen(CommentClass)), FALSE),
                          Units(Len(SpanClose), FALSE))
        s3 == HighlightNumbers(s2)
        f3 == ReplaceFrom(f2, NumberMatches(s2), 1,
                          Units(Len(SpanOpen(NumberClass)), FALSE),
                          Units(Len(SpanClose), FALSE))
    IN  KeywordsFromCode(s3, f3, langKeywords(lang).words, 1)

(***************************************************************************)
(* Properties                                                              *)
(***************************************************************************)
Contains(s, t) == \E i \in 1..(Len(s) + 1) : At(s, i, t)

Returned == pc = "done" /\ ~raised

\* the language tag is one of the nine entries of the keyword table
InTable(lang) == \E k \in DOMAIN keywords : keywords[k].name = toLowerCase(lang)

\* C1: highlightCode never raises, whatever its arguments; for a language tag
\* that is not in the keyword table the keyword pass adds nothing to the
\* result of the string, comment and number passes.
C1_Total ==
    pc = "done" =>
        /\ ~raised
        /\ ~InTable(language) =>
               highlightedCode =
                   HighlightNumbers(HighlightComments(HighlightStrings(EscapeHtml(code))))

\* C2: an update with a value longer than 50,000 characters leaves the
\* document as it was and emits the notice "Content too large".
C2_TooLargeRejected ==
    [][\A v \in DOMAIN Values :
           (Len(Values[v]) > 50000 /\ handleMarkdownChange(Values[v])) =>
               (markdown' = markdown /\ toasts' = <<"Content too large">>)]_vars

C2_Witness == toasts = <<"Content too large">> /\ markdown = Words

\* the statistics as the specification words them
NonSpaceRuns(s) ==
    Cardinality({i \in 1..Len(s) :
                    s[i] \notin WhiteSpace /\ (i = 1 \/ s[i - 1] \in WhiteSpace)})

Newlines(s) == Cardinality({i \in 1..Len(s) : s[i] = "\n"})

\* C3: an update with a value of at most 50,000 characters makes that value
\* the document, and the statistics of the new document are its length, its
\* number of maximal runs of non-white-space characters (0 for a blank
\* document) and its number of newline characters plus one.
C3_UpdateAndStats ==
    /\ [][\A v \in DOMAIN Values :
              (Len(Values[v]) <= 50000 /\ handleMarkdownChange(Values[v])) =>
                  markdown' = Values[v]]_vars
    /\ [](stats = [characters |-> Len(markdown),
                   words |-> NonSpaceRuns(markdown),
                   lines |-> Newlines(markdown) + 1])

C3_Witness == Len(markdown) = 50000 /\ toasts = <<>> /\ stats.words = 5000

\* &lt;b&gt;&amp;&quot;&#39;
EscapedEntities ==
    <<"&", "l", "t", ";", "b", "&", "g", "t", ";", "&", "a", "m", "p", ";",
      "&", "q", "u", "o", "t", ";", "&", "#", "3", "9", ";">>

\* C4: for code <b>&"' and language text, highlightCode returns the
\* entity-escaped text with no span in it.
C4_EntitiesOnly ==
    (pc = "done" /\ code = CodeEntities /\ language = LangText) =>
        (~raised /\ highlightedCode = EscapedEntities)

\* the literal "hi" as it stands in the text after escaping, and as written
EscapedHi == <<"&", "q", "u", "o", "t", ";", "h", "i", "&", "q", "u", "o", "t", ";">>

QuotedHi == <<"\"", "h", "i", "\"">>

\* C5: for language javascript and code "hi" + 42, the literal "hi" is
\* wrapped in a string span and 42 in a number span, and the string span
\* holds no number span.
C5_StringAndNumber ==
    (pc = "done" /\ code = CodeHi /\ language = LangJavascript) =>
        /\ ~raised
        /\ \/ Contains(highlightedCode, SpanOpen(StringClass) \o EscapedHi \o SpanClose)
           \/ Contains(highlightedCode, SpanOpen(StringClass) \o QuotedHi \o SpanClose)
        /\ Contains(highlightedCode, SpanOpen(NumberClass) \o <<"4", "2">> \o SpanClose)

\* the result the specification describes for the python example
ExpectedDef ==
    SpanOpen(KeywordClass) \o <<"d", "e", "f">> \o SpanClose
        \o <<" ", "f", "(", "n", ")", ":", "\n", " ", " ", " ", " ">>
        \o SpanOpen(KeywordClass) \o <<"r", "e", "t", "u", "r", "n">> \o SpanClose
        \o <<" ", "n", " ", " ">>
        \o SpanOpen(CommentClass) \o <<"#", " ", "b", "a", "s", "e">> \o SpanClose

\* C6: for language python and the code def f(n): / return n  # base, the
\* words def and return are each wrapped in a keyword span, # base in a
\* comment span, and nothing else is wrapped or changed.
C6_DefReturnComment ==
    (pc = "done" /\ code = CodeDef /\ language = LangPython) =>
        (~raised /\ highlightedCode = ExpectedDef)

C6_Witness == pc = "done" /\ code = CodeDef /\ language = LangPython /\ ~raised

MarkupChars == {"<", ">", "\"", "'"}

\* the characters of the replacement strings
SpanChars ==
    {SpanPrefix[i] : i \in DOMAIN SpanPrefix}
        \cup {StringClass[i] : i \in DOMAIN StringClass}
        \cup {CommentClass[i] : i \in DOMAIN CommentClass}
        \cup {NumberClass[i] : i \in DOMAIN NumberClass}
        \cup {KeywordClass[i] : i \in DOMAIN KeywordClass}
        \cup {SpanClose[i] : i \in DOMAIN SpanClose}

\* C7: in the text highlightCode returns, no <, >, " or ' descends from
\* `code`: each was put there by a replacement string of the classifier; and
\* what the replacement strings put there holds no entity (no & and no ;).
C7_MarkupSafe ==
    Returned =>
        LET from == FromCode(code, language)
        IN  /\ Len(from) = Len(highlightedCode)
            /\ \A p \in 1..Len(highlightedCode) :
                   /\ highlightedCode[p] \in MarkupChars => ~from[p]
                   /\ ~from[p] => highlightedCode[p] \in SpanChars \ {"&", ";"}

C7_Witness ==
    /\ Returned
    /\ \E p \in 1..Len(code) : code[p] \in MarkupChars
    /\ Contains(highlightedCode, SpanClose)

\* C8: a render that throws puts the boundary in the error state, and only
\* the retry action leaves the error state (and leaves it only when the
\* document then renders).
C8_Boundary ==
    /\ [](RenderThrows(markdown) => hasError)
    /\ [][(hasError /\ ~hasError') => (tryAgain /\ ~RenderThrows(markdown'))]_vars

C8_Witness == hasError /\ ~RenderThrows(markdown) /\ toasts = <<"Content cleared">>

\* C9: the document never holds more than 50,000 characters.
C9_Bounded == Len(markdown) <= 50000

C9_Witness == Len(markdown) = 50000 /\ toasts = <<"Content too large">>

\* C10: after Clear the document is empty, and its statistics are 0
\* characters, 0 words and 1 line.
C10_Clear ==
    toasts = <<"Content cleared">> =>
        /\ markdown = <<>>
        /\ stats = [characters |-> 0, words |-> 0, lines |-> 1]

C10_Witness == toasts = <<"Content cleared">> /\ hasError /\ writes # <<>>

\* C11: Download builds a text/markdown blob named document.md whose content
\* is the document at the moment of the event, Copy passes the document at
\* the moment of the event to the clipboard write, and no later event changes
\* the text of a write that is still unsettled.
C11_CurrentDocument ==
    /\ [][downloadMarkdown =>
              blob' = [type |-> "text/markdown", download |-> "document.md",
                       content |-> markdown]]_vars
    /\ [][copyToClipboard =>
              /\ Len(writes') = Len(writes) + 1
              /\ writes'[Len(writes')].text = markdown
              /\ SubSeq(writes', 1, Len(writes)) = writes]_vars
    /\ [][(Len(writes') = Len(writes)) => writes' = writes]_vars

C11_Witness ==
    /\ toasts = <<"Download started">>
    /\ blob.content = markdown
    /\ markdown = Blank
    /\ \E k \in DOMAIN writes : writes[k].origin = "toolbar" /\ writes[k].text = Words

SuccessNotices == {<<"Copied to clipboard">>, <<"Code copied!">>}

FailureNotices == {<<"Copy failed">>}

\* C12: every clipboard write the shell starts, from the toolbar or from a
\* code block's copy button, is reported by exactly one notice: a success
\* notice is emitted only by the step in which a write resolves, and the
\* step in which a write rejects emits a failure notice.
C12_WriteReported ==
    /\ [][toasts' \in SuccessNotices => \E k \in DOMAIN writes : writeResolved(k)]_vars
    /\ [][\A k \in DOMAIN writes : writeResolved(k) => toasts' \in SuccessNotices]_vars
    /\ [][\A k \in DOMAIN writes : writeRejected(k) => toasts' \in FailureNotices]_vars

\* C13: only Update document and Clear write the document: a Copy step, the
\* settling of a clipboard write either way, a Download step, the Paste
\* notice, a code block's copy button and the retry step each leave the
\* document as it was; the statistics are a function of the document alone
\* (stats), so they stay as they were too.
C13_OnlyWriters ==
    [][(\/ copyToClipboard
        \/ \E k \in DOMAIN writes : writeResolved(k) \/ writeRejected(k)
        \/ downloadMarkdown
        \/ \E v \in DOMAIN Values : handlePaste(Values[v])
        \/ \E k \in DOMAIN HighlightedBlocks(markdown) : codeCopy(k)
        \/ tryAgain)
           => markdown' = markdown]_vars

C13_Witness ==
    /\ toasts \in {<<"Copy failed">>, <<"Content pasted">>, <<"Download started">>}
    /\ markdown = Words
    /\ hasError

SpanClasses == {StringClass, CommentClass, NumberClass, KeywordClass}

\* an intact opening tag of a classification span starts at i
OpenTagAt(s, i) == \E c \in SpanClasses : At(s, i, SpanOpen(c))

\* an intact tag of a classification span starts at i and ends at j
TagFromTo(s, i, j) ==
    \/ \E c \in SpanClasses : At(s, i, SpanOpen(c)) /\ j = i + Len(SpanOpen(c)) - 1
    \/ At(s, i, SpanClose) /\ j = i + Len(SpanClose) - 1

\* every < starts an intact tag and every > ends one: no pass has put
\* anything inside the text of a tag
TagsIntact(s) ==
    \A i \in 1..Len(s) :
        /\ s[i] = "<" => \E j \in i..Len(s) : TagFromTo(s, i, j)
        /\ s[i] = ">" => \E j \in 1..i : TagFromTo(s, j, i)

\* opening tags minus closing tags among the tags that start at or before i
Depth(s, i) ==
    Cardinality({j \in 1..i : OpenTagAt(s, j)})
        - Cardinality({j \in 1..i : At(s, j, SpanClose)})

\* no closing tag without an opening tag before it, and none left open
TagsBalanced(s) ==
    /\ \A i \in 1..Len(s) : Depth(s, i) >= 0
    /\ Depth(s, Len(s)) = 0

\* C14: for every code and every language of the keyword table, the spans of
\* the returned text are well-formed: every tag is an intact opening or
\* closing tag of a classification span (no pass wraps a part of a tag an
\* earlier pass inserted), and the tags are balanced and nested.
C14_WellFormed ==
    (Returned /\ InTable(language)) =>
        (TagsIntact(highlightedCode) /\ TagsBalanced(highlightedCode))

=============================================================================
